---- MODULE Spec2Model ----
(***************************************************************************)
(* A model of raio's SingleThreadedExecutor (src/lib.rs): the caller-side  *)
(* handle (accept, read, execute, schedule, shutdown, drop), the mpsc      *)
(* channel that carries ThreadMessage values, and executor_loop, the       *)
(* reactor thread that owns the callback table readevents and the kqueue.  *)
(*                                                                         *)
(* The Completion Cell of the design text has no implementation in         *)
(* lib.rs (Future is a unit struct); it is modelled from the design text   *)
(* in the section "Completion Cell" and has its own specification.         *)
(***************************************************************************)
EXTENDS Integers, Sequences, FiniteSets, TLC

----------------------------------------------------------------------------
(* Bounds of the model. *)

\* Descriptors below the table size that callers may open.
NumFds == 2
\* Caller threads sharing the executor handle.
NumThreads == 2
\* Callbacks ever boxed by accept()/read() (one per successful send).
MaxCbs == 2
\* A callback returns KEEP at most this many times before its DELETE.
MaxKeep == 1
\* Completion cells, handles on them, values and resolve() calls in all.
NumCells == 2
NumHandles == 3
NumValues == 2
MaxResolves == 2

(* Program constants. *)

\* readevents: [Option<CallbackType>; 10]
TableSize == 10
\* ev_list: [libc::kevent; 32]
EvListSize == 32

----------------------------------------------------------------------------
(* The values of the program. *)

\* The first descriptor value that does not index readevents.
OverflowFd == TableSize
\* Descriptors a caller can hold: a few that fit the table and one that
\* does not.
Fds == (0 .. (NumFds - 1)) \cup {OverflowFd}
Threads == 1 .. NumThreads
Cbs == 1 .. MaxCbs
\* A callback that never returns DELETE.
KeepForever == 0 - 1
Plans == (0 .. MaxKeep) \cup {KeepForever}
\* Option::None in a slot of readevents.
None == [kind |-> "None", cb |-> 0]
\* The indices of the callback table.
TableIndex == 0 .. (TableSize - 1)

\* The smaller of two numbers (kevent fills at most the 32 slots of ev_list).
Min(a, b) == IF a < b THEN a ELSE b

\* All orderings of a finite set: the orders in which kevent may fill
\* ev_list with the pending events.
RECURSIVE Orderings(_)
Orderings(S) ==
  IF S = {} THEN {<<>>}
  ELSE UNION { { <<x>> \o s : s \in Orderings(S \ {x}) } : x \in S }

----------------------------------------------------------------------------
VARIABLES
  fdState,     \* per descriptor: "closed" or "raw" (open, and released from
               \* its TcpListener/TcpStream by into_raw_fd)
  ready,       \* descriptors registered in kq that the OS finds readable
  channel,     \* the ThreadMessage values sent and not yet received
  handle,      \* the SingleThreadedExecutor value: "live", "dropping", "dropped"
  join_handle, \* the field join_handle: "Some" or "None"
  callerPc,    \* per caller thread: "running", "joining" or the panic it died of
  pc,          \* the reactor thread's position in executor_loop
  kqOpen,      \* whether the kqueue descriptor kq exists
  interest,    \* descriptors with an EVFILT_READ registration in kq
  readevents,  \* the callback table of executor_loop
  nev,         \* the result of the last kevent wait
  ev_list,     \* the events the last kevent wait returned (their ident)
  idx,         \* the iterations of `for _ in 0..num` completed
  running,     \* the callbacks currently executing
  nextCb,      \* the next callback identity to box
  plan,        \* per callback: the number of KEEPs it returns before DELETE
  invoked,     \* per callback: how often it was invoked (saturating)
  deletedCbs,  \* the callbacks that have returned DELETE
  passLog,     \* the descriptors whose callback ran in the current dispatch pass
  passSent,    \* the callbacks boxed by a running callback in the current pass
  replaced,    \* the slots of readevents that a later ADD_* message overwrote
  cells,       \* Completion Cell: the shared slots
  handleOf,    \* Completion Cell: per handle the slot it refers to (0: unused)
  nextCell,    \* Completion Cell: the next slot new() hands out
  resolveLog   \* Completion Cell: per slot the values resolve() was called with

callerVars == <<handle, join_handle, callerPc>>
osVars == <<fdState, ready>>
reactorVars == <<pc, kqOpen, interest, readevents, nev, ev_list, idx, running>>
cbVars == <<nextCb, plan, invoked, deletedCbs, passLog, passSent, replaced>>
cellVars == <<cells, handleOf, nextCell, resolveLog>>
vars == <<fdState, ready, channel, handle, join_handle, callerPc, pc, kqOpen,
          interest, readevents, nev, ev_list, idx, running, nextCb, plan,
          invoked, deletedCbs, passLog, passSent, replaced, cells, handleOf,
          nextCell, resolveLog>>

----------------------------------------------------------------------------
(* Completion Cell: initial values (the cell operations follow the reactor). *)

CellIds == 1 .. NumCells
Handles == 1 .. NumHandles
Values == 1 .. NumValues
\* A fresh, unresolved slot.
Unresolved == [ready |-> FALSE, value |-> 0]

CellInitVars ==
  /\ cells = [c \in CellIds |-> Unresolved]
  /\ handleOf = [h \in Handles |-> 0]
  /\ nextCell = 1
  /\ resolveLog = [c \in CellIds |-> <<>>]

----------------------------------------------------------------------------
(* The state after SingleThreadedExecutor::new: the channel exists, the     *)
(* reactor thread is spawned and has not run yet.                           *)

Init ==
  /\ fdState = [f \in Fds |-> "closed"]
  /\ ready = {}
  /\ channel = <<>>
  /\ handle = "live"
  /\ join_handle = "Some"
  /\ callerPc = [t \in Threads |-> "running"]
  /\ pc = "init"
  /\ kqOpen = FALSE
  /\ interest = {}
  /\ readevents = [f \in TableIndex |-> None]
  /\ nev = 0
  /\ ev_list = <<>>
  /\ idx = 0
  /\ running = {}
  /\ nextCb = 1
  /\ plan = [c \in Cbs |-> 0]
  /\ invoked = [c \in Cbs |-> 0]
  /\ deletedCbs = {}
  /\ passLog = <<>>
  /\ passSent = {}
  /\ replaced = {}
  /\ CellInitVars

----------------------------------------------------------------------------
(* The operating system, as far as the program sees it. *)

\* A connection or data arrives on a socket registered in kq.  (Readiness
\* is read only by the kevent wait, through the registrations of kq, so
\* data that arrived before the registration shows as this step taken
\* right after it.)
BecomeReady(fd) ==
  /\ fdState[fd] # "closed"
  /\ fd \in interest
  /\ fd \notin ready
  /\ ready' = ready \cup {fd}
  /\ UNCHANGED <<fdState, channel, callerVars, reactorVars, cbVars, cellVars>>

----------------------------------------------------------------------------
(* The caller side: impl Executor for SingleThreadedExecutor. *)

\* The Receiver lives in executor_loop's frame: it is dropped when the
\* function returns or unwinds, and Sender::send fails from then on.
ReceiverAlive == pc \notin {"done", "panicked"}

\* A caller may use the handle: it exists, the thread is alive, and no
\* shutdown(&mut self) holds the exclusive borrow.
CanCall(t) ==
  /\ handle = "live"
  /\ callerPc[t] = "running"
  /\ \A u \in Threads : callerPc[u] # "joining"

\* A faulty variant of SendAdd: the caller thread also registers the descriptor
\* with the kqueue itself instead of leaving that to the reactor thread.
SendAddDirect(t, type, fd, k) ==
  /\ handle = "live"
  /\ callerPc[t] = "running"
  /\ \A u \in Threads : callerPc[u] # "joining"
  /\ fdState[fd] = "closed"
  /\ nextCb <= MaxCbs
  /\ pc \notin {"done", "panicked"}
  /\ fdState' = [fdState EXCEPT ![fd] = "raw"]
  /\ channel' = Append(channel, [type |-> type, fd |-> fd, callback |-> nextCb])
  /\ plan' = [plan EXCEPT ![nextCb] = k]
  /\ nextCb' = nextCb + 1
  /\ interest' = interest \cup {fd}
  /\ UNCHANGED <<ready, callerVars, pc, kqOpen, readevents, nev, ev_list, idx,
                 running, invoked, deletedCbs, passLog, passSent, replaced, cellVars>>

\* self.sender.send(msg).unwrap()  for an ADD_* message carrying a new boxed
\* callback whose behaviour is k KEEPs and then DELETE.  The caller passes a
\* socket it owns: its descriptor fd was free when the socket was created,
\* and into_raw_fd releases it, open, into the message.
SendAdd(t, type, fd, k) ==
  /\ CanCall(t)
  /\ fdState[fd] = "closed"
  /\ nextCb <= MaxCbs
  /\ fdState' = [fdState EXCEPT ![fd] = "raw"]
  /\ IF ReceiverAlive
     THEN /\ channel' = Append(channel, [type |-> type, fd |-> fd, callback |-> nextCb])
          /\ plan' = [plan EXCEPT ![nextCb] = k]
          /\ nextCb' = nextCb + 1
          /\ UNCHANGED callerPc
     ELSE /\ callerPc' = [callerPc EXCEPT ![t] = "panic_send"]
          /\ UNCHANGED <<channel, plan, nextCb>>
  /\ UNCHANGED <<ready, handle, join_handle, reactorVars, invoked, deletedCbs,
                 passLog, passSent, replaced, cellVars>>

accept(t, fd, k) == SendAdd(t, "ADD_ACCEPT_EVENT", fd, k)

read(t, fd, k) == SendAdd(t, "ADD_READ_EVENT", fd, k)

\* unimplemented!()
execute(t) ==
  /\ CanCall(t)
  /\ callerPc' = [callerPc EXCEPT ![t] = "panic_execute"]
  /\ UNCHANGED <<osVars, channel, handle, join_handle, reactorVars, cbVars, cellVars>>

\* unimplemented!()
schedule(t) ==
  /\ CanCall(t)
  /\ callerPc' = [callerPc EXCEPT ![t] = "panic_schedule"]
  /\ UNCHANGED <<osVars, channel, handle, join_handle, reactorVars, cbVars, cellVars>>

\* The body of shutdown: sends nothing; takes the join handle, if it is
\* still there, and joins the reactor thread.
ShutdownBody(t) ==
  /\ channel' = channel
  /\ IF join_handle = "Some"
     THEN /\ join_handle' = "None"
          /\ callerPc' = [callerPc EXCEPT ![t] = "joining"]
     ELSE UNCHANGED <<join_handle, callerPc>>

shutdown(t) ==
  /\ CanCall(t)
  /\ ShutdownBody(t)
  /\ UNCHANGED <<osVars, handle, reactorVars, cbVars, cellVars>>

\* impl Drop: drop calls shutdown; the fields are dropped once it returns.
drop(t) ==
  /\ CanCall(t)
  /\ ShutdownBody(t)
  /\ handle' = IF join_handle = "Some" THEN "dropping" ELSE "dropped"
  /\ UNCHANGED <<osVars, reactorVars, cbVars, cellVars>>

\* x.join() returns once the reactor thread has terminated.
JoinReturn(t) ==
  /\ callerPc[t] = "joining"
  /\ pc \in {"done", "panicked"}
  /\ callerPc' = [callerPc EXCEPT ![t] = "running"]
  /\ handle' = IF handle = "dropping" THEN "dropped" ELSE handle
  /\ UNCHANGED <<osVars, channel, join_handle, reactorVars, cbVars, cellVars>>

----------------------------------------------------------------------------
(* The reactor thread: executor_loop. *)

\* let kq = libc::kqueue()
ReactorStart ==
  /\ pc = "init"
  /\ kqOpen' = TRUE
  /\ pc' = "recv"
  /\ UNCHANGED <<osVars, channel, callerVars, interest, readevents, nev, ev_list,
                 idx, running, cbVars, cellVars>>

\* The table slot an ADD_* message stores.
Registration(m) ==
  [kind |-> IF m.type = "ADD_ACCEPT_EVENT" THEN "ACCEPT" ELSE "READ", cb |-> m.callback]

\* kevent(kq, &ev_set, 1, ..) with EV_ADD: the interest set afterwards; the
\* call fails (its result is ignored) when the OS refuses it or fd is closed.
EvAdd(fd, ok) == IF ok /\ fdState[fd] # "closed" THEN interest \cup {fd} ELSE interest

\* A faulty variant of Store: an occupied slot keeps its callback.
StoreIfVacant(m) ==
  IF readevents[m.fd] = None
  THEN [readevents EXCEPT ![m.fd] = Registration(m)]
  ELSE readevents

\* readevents[fd as usize] = Some(CallbackType::ACCEPT(callback) | READ(callback))
Store(m) == [readevents EXCEPT ![m.fd] = Registration(m)]

\* The slots overwritten so far, once m is stored (the old Box is dropped).
Overwritten(m) ==
  IF readevents[m.fd] # None
  THEN replaced \cup {[fd |-> m.fd, kind |-> readevents[m.fd].kind, cb |-> readevents[m.fd].cb]}
  ELSE replaced

\* A faulty variant of AtLoopTop: the channel is also polled between the
\* iterations of the for loop over the events.
AtLoopTopOrInPass == pc \in {"recv", "dispatch"}

\* Where the reactor thread polls the channel: only at the top of `loop`.
AtLoopTop == pc = "recv"

\* match receiver.try_recv(): one message at most per loop iteration.
TryRecv ==
  /\ AtLoopTop
  /\ IF channel = <<>>
     THEN /\ pc' = "wait"
          /\ UNCHANGED <<channel, readevents, interest, replaced>>
     ELSE LET m == Head(channel) IN
          /\ channel' = Tail(channel)
          /\ CASE m.type = "SHUTDOWN" ->
                    /\ pc' = "done"
                    /\ UNCHANGED <<readevents, interest, replaced>>
               [] m.type # "SHUTDOWN" /\ m.fd \notin TableIndex ->
                    \* readevents[fd as usize]: index out of bounds
                    /\ pc' = "panicked"
                    /\ UNCHANGED <<readevents, interest, replaced>>
               [] OTHER ->
                    /\ readevents' = Store(m)
                    /\ replaced' = Overwritten(m)
                    /\ \E ok \in BOOLEAN : interest' = EvAdd(m.fd, ok)
                    /\ pc' = "wait"
  /\ UNCHANGED <<osVars, callerVars, kqOpen, nev, ev_list, idx, running, nextCb, plan,
                 invoked, deletedCbs, passLog, passSent, cellVars>>

\* The events pending in kq.
Pending == ready \cap interest

\* nev = kevent(kq, null, 0, ev_list, 32, timeout) and `match nev`: an
\* error (-1) or a timeout after 100 ns with nothing pending (0) go back to
\* the top of the loop; otherwise the pending events are in ev_list, in some
\* order.  nev and ev_list are dead at the top of the loop (the next wait
\* overwrites them before they are read), so the model keeps 0 and <<>> there.
Wait ==
  /\ pc = "wait"
  /\ \E failed \in BOOLEAN :
       IF failed \/ Pending = {}
       THEN /\ nev' = 0
            /\ ev_list' = <<>>
            /\ pc' = "recv"
       ELSE \E order \in Orderings(Pending) :
            /\ nev' = Min(Len(order), EvListSize)
            /\ ev_list' = SubSeq(order, 1, Min(Len(order), EvListSize))
            /\ pc' = "dispatch"
  /\ idx' = 0
  /\ UNCHANGED <<osVars, channel, callerVars, kqOpen, interest, readevents, running,
                 cbVars, cellVars>>

\* Where the count of a callback's invocations saturates: one past the
\* invocation that returns DELETE.
CountCap(cb) == IF plan[cb] = KeepForever THEN 1 ELSE plan[cb] + 2

\* let fd = ev_list[0].ident as i32   (in every iteration of the for loop)
EventFd == ev_list[1]

\* One iteration of `for _ in 0..num` up to the call of the callback: the
\* slot of EventFd is looked up and, if it is Some, its callback is called.
Dispatch ==
  /\ pc = "dispatch"
  /\ idx < nev
  /\ IF EventFd \notin TableIndex
     THEN /\ pc' = "panicked"
          /\ UNCHANGED <<idx, running, invoked, passLog>>
     ELSE IF readevents[EventFd] # None
     THEN LET cb == readevents[EventFd].cb IN
          /\ running' = running \cup {cb}
          /\ invoked' = [invoked EXCEPT ![cb] = Min(@ + 1, CountCap(cb))]
          /\ passLog' = Append(passLog, EventFd)
          /\ pc' = "callback"
          /\ UNCHANGED idx
     ELSE /\ idx' = idx + 1
          /\ UNCHANGED <<pc, running, invoked, passLog>>
  /\ UNCHANGED <<osVars, channel, callerVars, kqOpen, interest, readevents, nev,
                 ev_list, nextCb, plan, deletedCbs, passSent, replaced, cellVars>>

\* The running callback calls accept()/read() on the executor it was given
\* (typically an accept callback registering the stream it has accepted):
\* the same send as SendAdd, made on the reactor thread, whose Receiver is
\* alive.  A caller inside shutdown(&mut self) excludes it.
CallbackSend(type, fd, k) ==
  /\ pc = "callback"
  /\ handle = "live"
  /\ \A u \in Threads : callerPc[u] # "joining"
  /\ fdState[fd] = "closed"
  /\ nextCb <= MaxCbs
  /\ fdState' = [fdState EXCEPT ![fd] = "raw"]
  /\ channel' = Append(channel, [type |-> type, fd |-> fd, callback |-> nextCb])
  /\ plan' = [plan EXCEPT ![nextCb] = k]
  /\ nextCb' = nextCb + 1
  /\ passSent' = passSent \cup {nextCb}
  /\ UNCHANGED <<ready, callerVars, reactorVars, invoked, deletedCbs, passLog,
                 replaced, cellVars>>

\* What the callback returns on its current invocation.
Control(cb) ==
  IF plan[cb] # KeepForever /\ invoked[cb] > plan[cb] THEN "DELETE" ELSE "KEEP"

\* A faulty variant of TakeIfDeleted: the slot is left in place.
TakeNever(deleted, fd) == readevents

\* if deleted == true { readevents[fd as usize].take(); }
TakeIfDeleted(deleted, fd) ==
  IF deleted THEN [readevents EXCEPT ![fd] = None] ELSE readevents

\* A faulty variant of FdAfterReturn: the KEEP arm does not call into_raw_fd,
\* so the reconstructed socket is dropped whatever the callback returned.
FdAfterReturnDropped(deleted, fd) == [fdState EXCEPT ![fd] = "closed"]

\* The socket rebuilt by from_raw_fd(fd) at the end of its unsafe block: on
\* DELETE it goes out of scope and is dropped, which closes fd; on KEEP
\* into_raw_fd() has consumed it and fd stays open.
FdAfterReturn(deleted, fd) ==
  IF deleted THEN [fdState EXCEPT ![fd] = "closed"] ELSE fdState

\* The callback returns and the match on its EventControl runs: DELETE
\* removes the kqueue registration and the slot, and the reconstructed
\* TcpListener/TcpStream is dropped, which closes the descriptor; KEEP
\* releases the descriptor again with into_raw_fd.
CallbackReturn ==
  /\ pc = "callback"
  /\ \E cb \in running :
       LET deleted == Control(cb) = "DELETE" IN
       /\ running' = running \ {cb}
       /\ readevents' = TakeIfDeleted(deleted, EventFd)
       /\ fdState' = FdAfterReturn(deleted, EventFd)
       /\ IF deleted
          THEN /\ interest' = interest \ {EventFd}
               /\ ready' = ready \ {EventFd}
               /\ deletedCbs' = deletedCbs \cup {cb}
          ELSE /\ \E consumed \in BOOLEAN :
                    ready' = IF consumed THEN ready \ {EventFd} ELSE ready
               /\ UNCHANGED <<interest, deletedCbs>>
  /\ idx' = idx + 1
  /\ pc' = "dispatch"
  /\ UNCHANGED <<channel, callerVars, kqOpen, nev, ev_list, nextCb, plan, invoked,
                 passLog, passSent, replaced, cellVars>>

\* The for loop has run num times: back to the top of `loop`.
EndDispatch ==
  /\ pc = "dispatch"
  /\ idx = nev
  /\ pc' = "recv"
  /\ passLog' = <<>>
  /\ passSent' = {}
  /\ nev' = 0
  /\ ev_list' = <<>>
  /\ idx' = 0
  /\ UNCHANGED <<osVars, channel, callerVars, kqOpen, interest, readevents,
                 running, nextCb, plan, invoked, deletedCbs, replaced, cellVars>>

Reactor == ReactorStart \/ TryRecv \/ Wait \/ Dispatch \/ CallbackReturn \/ EndDispatch

----------------------------------------------------------------------------
Next ==
  \/ \E fd \in Fds : BecomeReady(fd)
  \/ \E t \in Threads, fd \in Fds, k \in Plans : accept(t, fd, k)
  \/ \E t \in Threads, fd \in Fds, k \in Plans : read(t, fd, k)
  \/ \E t \in Threads : execute(t)
  \/ \E t \in Threads : schedule(t)
  \/ \E t \in Threads : shutdown(t)
  \/ \E t \in Threads : drop(t)
  \/ \E t \in Threads : JoinReturn(t)
  \/ \E type \in {"ADD_ACCEPT_EVENT", "ADD_READ_EVENT"}, fd \in Fds, k \in Plans :
       CallbackSend(type, fd, k)
  \/ Reactor

Spec == Init /\ [][Next]_vars

\* A caller hands over a socket built over a descriptor that an earlier
\* accept()/read() already gave to the reactor (FromRawFd lets a caller
\* build a second TcpListener/TcpStream over the same descriptor; the
\* executor takes whatever socket it is given).  Otherwise the same send as
\* SendAdd.
SendAlias(t, type, fd, k) ==
  /\ CanCall(t)
  /\ fdState[fd] = "raw"
  /\ nextCb <= MaxCbs
  /\ IF ReceiverAlive
     THEN /\ channel' = Append(channel, [type |-> type, fd |-> fd, callback |-> nextCb])
          /\ plan' = [plan EXCEPT ![nextCb] = k]
          /\ nextCb' = nextCb + 1
          /\ UNCHANGED callerPc
     ELSE /\ callerPc' = [callerPc EXCEPT ![t] = "panic_send"]
          /\ UNCHANGED <<channel, plan, nextCb>>
  /\ UNCHANGED <<osVars, handle, join_handle, reactorVars, invoked, deletedCbs,
                 passLog, passSent, replaced, cellVars>>

\* The executor with callers that may also register a descriptor again.
AliasNext ==
  \/ Next
  \/ \E t \in Threads, type \in {"ADD_ACCEPT_EVENT", "ADD_READ_EVENT"}, fd \in Fds,
        k \in Plans : SendAlias(t, type, fd, k)

AliasSpec == Init /\ [][AliasNext]_vars

\* The reactor thread is scheduled and callbacks return; a join() whose
\* thread has terminated returns.
FairSpec ==
  /\ Spec
  /\ WF_vars(Reactor)
  /\ \A t \in Threads : WF_vars(JoinReturn(t))

----------------------------------------------------------------------------
(* Completion Cell (design text, sections 3 and 4.4): a shared one-shot     *)
(* result slot.  lib.rs declares only `pub struct Future;`.                 *)

\* The cell operations leave the executor alone.
ExecutorUnchanged == UNCHANGED <<osVars, channel, callerVars, reactorVars, cbVars>>

\* The slot a handle refers to.
CellOf(h) == cells[handleOf[h]]

\* is_ready(), through handle h.
IsReady(h) == CellOf(h).ready

\* The value observed through handle h.
ValueOf(h) == CellOf(h).value

\* new(): a fresh, unresolved, shared cell, held by handle h.
CellNew(h) ==
  /\ handleOf[h] = 0
  /\ nextCell <= NumCells
  /\ handleOf' = [handleOf EXCEPT ![h] = nextCell]
  /\ nextCell' = nextCell + 1
  /\ UNCHANGED <<cells, resolveLog>>
  /\ ExecutorUnchanged

\* clone-handle(): g becomes another reference to the cell of h.
CloneHandle(h, g) ==
  /\ handleOf[h] # 0
  /\ handleOf[g] = 0
  /\ handleOf' = [handleOf EXCEPT ![g] = handleOf[h]]
  /\ UNCHANGED <<cells, nextCell, resolveLog>>
  /\ ExecutorUnchanged

\* A handle is dropped.
DropHandle(h) ==
  /\ handleOf[h] # 0
  /\ handleOf' = [handleOf EXCEPT ![h] = 0]
  /\ UNCHANGED <<cells, nextCell, resolveLog>>
  /\ ExecutorUnchanged

\* A faulty variant of ResolveCell: every resolution overwrites the slot.
ResolveCellOverwrite(cell, v) == [ready |-> TRUE, value |-> v]

\* resolve(value) on a slot: sets the result once; a second call is a no-op.
ResolveCell(cell, v) == IF cell.ready THEN cell ELSE [ready |-> TRUE, value |-> v]

\* The resolve() calls made so far on the cells 1 .. n.
RECURSIVE ResolveCalls(_)
ResolveCalls(n) == IF n = 0 THEN 0 ELSE Len(resolveLog[n]) + ResolveCalls(n - 1)

\* resolve(v) through handle h.
Resolve(h, v) ==
  /\ handleOf[h] # 0
  /\ ResolveCalls(NumCells) < MaxResolves
  /\ cells' = [cells EXCEPT ![handleOf[h]] = ResolveCell(@, v)]
  /\ resolveLog' = [resolveLog EXCEPT ![handleOf[h]] = Append(@, v)]
  /\ UNCHANGED <<handleOf, nextCell>>
  /\ ExecutorUnchanged

CellNext ==
  \/ \E h \in Handles : CellNew(h)
  \/ \E h \in Handles, g \in Handles : CloneHandle(h, g)
  \/ \E h \in Handles : DropHandle(h)
  \/ \E h \in Handles, v \in Values : Resolve(h, v)

\* The cell on its own: no operation of lib.rs creates or resolves one.
CellSpec == Init /\ [][CellNext]_vars

----------------------------------------------------------------------------
(* Claims. *)

\* C1: once a caller is inside shutdown() (directly or through drop) and
\* waits in join(), the reactor thread eventually terminates and the caller
\* is unblocked.
C1_ShutdownJoinReturns ==
  \A t \in Threads : (callerPc[t] = "joining") ~> (callerPc[t] # "joining")

\* C2: in one dispatch pass no descriptor's callback is invoked more than
\* once, and when the pass is over every descriptor the wait returned has
\* had its callback invoked exactly once.
C2_EachReadyDispatchedOnce ==
  /\ \A fd \in Fds :
       Cardinality({ j \in 1 .. Len(passLog) : passLog[j] = fd }) <= 1
  /\ (pc = "dispatch" /\ idx = nev) =>
       \A i \in 1 .. Len(ev_list) :
         Cardinality({ j \in 1 .. Len(passLog) : passLog[j] = ev_list[i] }) = 1

\* C3: a callback that has returned DELETE is never invoked again; when it
\* returns DELETE the slot and the kqueue registration of its descriptor are
\* gone; and a callback that returns KEEP k times and then DELETE has been
\* invoked exactly k + 1 times.
C3_NoDispatchAfterDelete ==
  /\ [](running \cap deletedCbs = {})
  /\ [](\A c \in deletedCbs : invoked[c] = plan[c] + 1)
  /\ [][deletedCbs' # deletedCbs =>
          readevents'[EventFd] = None /\ EventFd \notin interest']_vars

\* C3 witness: a callback with k >= 1 has returned DELETE in a pass that
\* examines its descriptor again, and finds no slot for it.
C3_Witness ==
  /\ pc = "dispatch"
  /\ idx < nev
  /\ passLog = <<EventFd>>
  /\ readevents[EventFd] = None
  /\ \E c \in deletedCbs : plan[c] >= 1 /\ invoked[c] = plan[c] + 1

\* C4: at most one callback executes at any time, and while a callback
\* executes no step of another thread changes the callback table or the
\* kqueue's registrations.
C4_CallbacksSerial ==
  /\ [](Cardinality(running) <= 1)
  /\ [][(running # {} /\ running' = running) =>
          (readevents' = readevents /\ interest' = interest)]_vars

\* C4 witness: a callback executes on the reactor thread while a command of
\* a caller is in the channel.
C4_Witness ==
  /\ running # {}
  /\ channel # <<>>
  /\ \A t \in Threads : callerPc[t] = "running"

\* C5: execute(callback) enqueues its command and returns to the caller
\* (the calling thread goes on running).
C5_ExecuteReturns == \A t \in Threads : callerPc[t] # "panic_execute"

\* C6: accept()/read() never abort the calling thread, also when the
\* reactor thread has terminated and the send fails.
C6_SendFailureDoesNotAbort == \A t \in Threads : callerPc[t] # "panic_send"

\* C7: processing an ADD_* message, or dispatching an event, for any
\* non-negative descriptor does not terminate the reactor thread.
C7_RegistryTakesAnyFd == pc # "panicked"

\* C8: a descriptor has a slot in the callback table exactly if it has a
\* read registration in the kqueue.
C8_SlotIffInterest ==
  \A fd \in TableIndex : (readevents[fd] # None) <=> (fd \in interest)

\* C9: schedule(callback, D) returns a Completion to the caller (the
\* calling thread goes on running).
C9_ScheduleReturns == \A t \in Threads : callerPc[t] # "panic_schedule"

\* C10: once resolve() has been called on a cell, every handle sharing the
\* cell sees it ready with the value of the first resolution, however often
\* resolve() is called afterwards.
C10_FirstResolutionStands ==
  \A h \in Handles :
    (handleOf[h] # 0 /\ resolveLog[handleOf[h]] # <<>>) =>
      (IsReady(h) /\ ValueOf(h) = resolveLog[handleOf[h]][1])

\* C10 witness: a cell held by two handles has been resolved twice, with
\* different values.
C10_Witness ==
  \E h \in Handles, g \in Handles :
    /\ h # g
    /\ handleOf[h] # 0
    /\ handleOf[h] = handleOf[g]
    /\ Len(resolveLog[handleOf[h]]) >= 2
    /\ resolveLog[handleOf[h]][1] # resolveLog[handleOf[h]][2]

\* C11: once new() has returned the reactor thread has created its kqueue:
\* no command is in the channel, and none is processed, while the kqueue
\* does not exist.
C11_NewWaitsForMultiplexer ==
  /\ channel # <<>> => kqOpen
  /\ pc # "init" => kqOpen

\* C12: when the reactor goes from the top of its loop to the kevent wait,
\* none of the commands that were in the channel when it started to receive
\* is left in the channel.
C12_DrainsBeforeWait ==
  [][(pc = "recv" /\ pc' = "wait") =>
       \A i \in 1 .. Len(channel) :
         \A j \in 1 .. Len(channel') : channel'[j].callback # channel[i].callback]_vars

\* C13: when a caller is in shutdown() and the reactor is alive, with
\* commands pending that the table can hold, every ADD_* command sent before
\* the shutdown (all callbacks boxed so far) is received by the reactor,
\* which then leaves its loop on the caller's SHUTDOWN message.
C13_AddsAppliedAtShutdownExit ==
  \A c \in Cbs :
    (/\ c < nextCb
     /\ \E t \in Threads : callerPc[t] = "joining"
     /\ pc # "panicked"
     /\ \A i \in 1 .. Len(channel) : channel[i].fd \in TableIndex)
      ~> (pc = "done" /\ \A i \in 1 .. Len(channel) : channel[i].callback # c)

\* C14: an idle reactor stays in its kevent wait: with no message in the
\* channel and no event pending in the kqueue, the wait does not return.
C14_IdleWaitBlocks ==
  [][(pc = "wait" /\ channel = <<>> /\ Pending = {}) => pc' = "wait"]_vars

\* C15: when the reactor thread has terminated, the kqueue is closed and no
\* descriptor handed to the reactor is open.
C15_ReleasedAtExit ==
  pc \in {"done", "panicked"} =>
    /\ ~kqOpen
    /\ \A fd \in TableIndex : readevents[fd] # None => fdState[fd] = "closed"
    /\ interest = {}

\* C16: a command that a running callback has sent is not applied within the
\* same dispatch pass: until the pass is over the message stays in the
\* channel, no slot holds its callback, its descriptor is in neither the
\* kqueue nor the events of the pass, and its callback has not been invoked.
C16_SentInPassNotApplied ==
  \A c \in passSent :
    /\ \E i \in 1 .. Len(channel) :
         /\ channel[i].callback = c
         /\ channel[i].fd \notin interest
         /\ \A j \in 1 .. Len(ev_list) : ev_list[j] # channel[i].fd
    /\ \A fd \in TableIndex : readevents[fd].cb # c
    /\ invoked[c] = 0
    /\ c \notin running

\* C16 witness: the callback that sent a command has returned and the for
\* loop of the pass goes on, with the command still in the channel.
C16_Witness ==
  /\ pc = "dispatch"
  /\ passSent # {}
  /\ passLog # <<>>
  /\ \A t \in Threads : callerPc[t] = "running"

\* C17: every descriptor with a slot in the callback table is open; the
\* return of a callback with KEEP changes neither the table, nor the kqueue's
\* registrations, nor the open state of any descriptor; and a descriptor is
\* closed only by the step in which its callback returns DELETE.
C17_KeepLeavesRegistration ==
  /\ [](\A fd \in TableIndex : readevents[fd] # None => fdState[fd] = "raw")
  /\ [][(pc = "callback" /\ pc' = "dispatch" /\ deletedCbs' = deletedCbs) =>
          (readevents' = readevents /\ interest' = interest /\ fdState' = fdState)]_vars
  /\ [][\A fd \in Fds :
          (fdState[fd] = "raw" /\ fdState'[fd] = "closed") =>
            (pc = "callback" /\ fd = EventFd /\ deletedCbs' # deletedCbs)]_vars

\* C17 witness: a callback has returned KEEP in the current pass and its
\* descriptor still has its slot and its kqueue registration, and is open.
C17_Witness ==
  /\ pc = "dispatch"
  /\ passLog # <<>>
  /\ deletedCbs = {}
  /\ readevents[EventFd] # None
  /\ invoked[readevents[EventFd].cb] >= 1
  /\ EventFd \in interest
  /\ fdState[EventFd] = "raw"

\* C20: an ADD_* message for a descriptor whose slot is occupied overwrites
\* the slot with its own kind and callback; an overwritten callback is in no
\* slot and never runs again; and the callback that runs for an event is the
\* one in the slot of the event's descriptor.
C20_LastRegistrationWins ==
  /\ [][(pc = "recv" /\ pc' = "wait" /\ channel # <<>>) =>
          readevents'[Head(channel).fd] = Registration(Head(channel))]_vars
  /\ [](\A r \in replaced :
          /\ r.cb \notin running
          /\ \A fd \in TableIndex : readevents[fd].cb # r.cb)
  /\ [][\A r \in replaced : invoked'[r.cb] = invoked[r.cb]]_vars
  /\ [](pc = "callback" => running = {readevents[EventFd].cb})

\* C20 witness: a callback that had been invoked was overwritten by a command
\* of the other kind for the same descriptor, and an event of that descriptor
\* now runs the new callback.
C20_Witness ==
  /\ pc = "callback"
  /\ running = {readevents[EventFd].cb}
  /\ \E r \in replaced :
       /\ r.fd = EventFd
       /\ invoked[r.cb] >= 1
       /\ r.kind # readevents[EventFd].kind

\* C18: the channel is a FIFO queue that only sends extend and only the
\* reactor's receive shortens, by its head; and every command in the channel
\* is eventually received by the reactor, whether or not any descriptor
\* becomes ready.
C18_EveryCommandConsumed ==
  /\ [][channel' # channel =>
          \/ channel # <<>> /\ channel' = Tail(channel)
          \/ /\ Len(channel') = Len(channel) + 1
             /\ SubSeq(channel', 1, Len(channel)) = channel]_vars
  /\ \A c \in Cbs :
       (\E i \in 1 .. Len(channel) : channel[i].callback = c)
         ~> (\A i \in 1 .. Len(channel) : channel[i].callback # c)

\* C19: when the EV_ADD of an ADD_* message fails (the descriptor is not in
\* the kqueue after the message was handled), the descriptor has no slot in
\* the callback table and the reactor goes on with its loop; and a callback
\* whose descriptor is not in the kqueue is never invoked.
C19_FailedRegistrationDropped ==
  /\ [][(pc = "recv" /\ pc' = "wait" /\ channel # <<>>
          /\ Head(channel).fd \notin interest') =>
            readevents'[Head(channel).fd] = None]_vars
  /\ [](\A fd \in TableIndex :
          (readevents[fd] # None /\ fd \notin interest) =>
            (invoked[readevents[fd].cb] = 0 /\ readevents[fd].cb \notin running))

====
